---- MODULE Spec2Model ----
(***************************************************************************)
(* rubin_sim.selfcal.generate_catalog: one call of generate_catalog, from  *)
(* its arguments to its return value or the exception it raises.           *)
(*                                                                         *)
(* Units of the model.  Angles in degrees are multiples of 30; an angle in *)
(* radians is an integer count of pi/6, so that np.radians is the division *)
(* by 30 and not the identity.  cos and sin are fixed-point numbers with   *)
(* unit Scale; a coordinate of a unit vector is a product of two of them   *)
(* (unit Scale*Scale).  Magnitudes are in millimagnitudes.                 *)
(***************************************************************************)
EXTENDS Integers, Sequences, FiniteSets

VARIABLES
    visits,                  \* argument: the visits, in caller order
    stars_array,             \* argument: the caller's star catalog
    offsets,                 \* argument: [is_none, list]; is_none models offsets=None
    radius_fov,              \* argument: radius of the field of view, degrees
    pc,                      \* "call" | "loop" | "returned" | "raised"
    error,                   \* the exception that left the call, "" if none
    warned,                  \* warnings.warn was called
    stars,                   \* the merged catalog of line 100 (<<>> before it)
    starTree,                \* the KD tree's points (<<>> before it is built)
    tree_builds,             \* how many times a KD tree was constructed
    seeds,                   \* the arguments of the np.random.seed calls, in order
    i,                       \* 1-based index of the next visit of the loop
    list_of_observed_arrays, \* one block of output records per processed visit
    selected,                \* per processed visit: the indices query_ball_point gave
    calls,                   \* every offset invocation, in order
    dmags_log,               \* per completed visit: dmags after its last offset
    result                   \* [is_none, records]: the value returned

vars == <<visits, stars_array, offsets, radius_fov, pc, error, warned, stars, starTree,
          tree_builds, seeds, i, list_of_observed_arrays, selected, calls,
          dmags_log, result>>

----------------------------------------------------------------------------
(* Bounds of the explored inputs. *)
MaxStars == 2
MaxVisits == 2
MaxOffsets == 2

(* Arguments left at their defaults (uncert_floor in millimagnitudes). *)
lsst_filter == "r"
n_patches == 16
seed == 42
uncert_floor == 5

(* Fixed-point unit of cos and sin, and 2*pi counted in pi/6. *)
Scale == 100
TwoPi == 12

----------------------------------------------------------------------------
(* Sequence helpers. *)
Range(s) == {s[j] : j \in DOMAIN s}

SeqsUpTo(S, n) == UNION {[1..m -> S] : m \in 0..n}

RECURSIVE SetToSortedSeq(_)
SetToSortedSeq(S) ==
    IF S = {} THEN <<>>
    ELSE LET m == CHOOSE x \in S : \A y \in S : x <= y
         IN <<m>> \o SetToSortedSeq(S \ {m})

Abs(n) == IF n < 0 THEN -n ELSE n

----------------------------------------------------------------------------
(* numpy trigonometry on the model's grid. *)
np_radians(deg) == deg \div 30

CosTable == <<100, 87, 50, 0, -50, -87, -100, -87, -50, 0, 50, 87>>

np_cos(rad) == CosTable[(rad % 12) + 1]

np_sin(rad) == np_cos(rad - 3)

(* treexyz(ra, dec), radians in, unit vector out (unit Scale*Scale). *)
treexyz(ra, dec) ==
    <<np_cos(dec) * np_cos(ra), np_cos(dec) * np_sin(ra), np_sin(dec) * Scale>>

(* Squared Euclidean distance of two points. *)
Dist2(p, q) ==
    (p[1] - q[1]) * (p[1] - q[1]) + (p[2] - q[2]) * (p[2] - q[2])
        + (p[3] - q[3]) * (p[3] - q[3])

----------------------------------------------------------------------------
(* The inputs the model explores. *)

(* A star of the caller's catalog: position in degrees, two band magnitudes. *)
StarChoices ==
    { [ra |-> 0,   decl |-> 0,  rmag |-> 15000, gmag |-> 15400],
      [ra |-> 30,  decl |-> 0,  rmag |-> 16000, gmag |-> 16300],
      [ra |-> 0,   decl |-> 30, rmag |-> 17000, gmag |-> 17900],
      [ra |-> 390, decl |-> 0,  rmag |-> 15500, gmag |-> 15600] }

VisitChoices ==
    { [ra |-> 0,  dec |-> 0, fiveSigmaDepth |-> 24000],
      [ra |-> 330, dec |-> 0, fiveSigmaDepth |-> 16500] }

(* Radii of the field of view, degrees. *)
FovChoices == {30, 60}

(* An offset instance: its result key and which model it is. *)
OffsetChoices ==
    { [newkey |-> "zp",  model |-> "flat"],
      [newkey |-> "zp",  model |-> "grad"],
      [newkey |-> "snr", model |-> "grad"],
      [newkey |-> "snr", model |-> "fail"] }

(* The catalog with the ids the caller gave its rows (here: the row number). *)
WithIds(cat) ==
    [j \in DOMAIN cat |->
        [id |-> j, ra |-> cat[j].ra, decl |-> cat[j].decl,
         rmag |-> cat[j].rmag, gmag |-> cat[j].gmag]]

----------------------------------------------------------------------------
(* Collaborators of generate_catalog that live in other modules of the     *)
(* package (offsets.py, star_tools.py).                                    *)

(* offset(stars_in, visit, dmags=dmags): one delta per candidate, or an    *)
(* exception.  "grad" conditions on the deltas produced so far.            *)
OffsetCall(offset, stars_in, visit, dmags) ==
    CASE offset.model = "flat" ->
            [raised |-> FALSE,
             val |-> [j \in DOMAIN stars_in |-> -100 - (visit.ra \div 30)]]
      [] offset.model = "grad" ->
            [raised |-> FALSE,
             val |-> [j \in DOMAIN stars_in |->
                        7 * stars_in[j].id + (visit.ra \div 30) + 20 * Len(dmags)]]
      [] OTHER ->
            IF visit.ra > 180
            THEN [raised |-> TRUE, val |-> <<>>]
            ELSE [raised |-> FALSE, val |-> [j \in DOMAIN stars_in |-> 50]]

(* stars_project(stars_in, visit): fills x, y and radius of the candidates. *)
stars_project(stars_in, visit) ==
    [j \in DOMAIN stars_in |->
        [stars_in[j] EXCEPT
            !.x = 1 + stars_in[j].ra - visit.ra,
            !.y = 1 + stars_in[j].decl - visit.dec,
            !.radius = 1 + Abs(stars_in[j].ra - visit.ra)
                         + Abs(stars_in[j].decl - visit.dec)]]

(* assign_patches(stars_in, visit, n_patches): fills patch_id, sub_patch. *)
assign_patches(stars_in, visit, np) ==
    [j \in DOMAIN stars_in |->
        [stars_in[j] EXCEPT
            !.patch_id = 1 + ((stars_in[j].radius \div 30) % np),
            !.sub_patch = 1 + (stars_in[j].radius % 4)]]

(* OffsetSNR.calc_mag_errors(obs_mag, errOnly=True, m5=...): the base error. *)
calc_mag_errors(obs_mag, m5) ==
    [j \in DOMAIN obs_mag |-> IF obs_mag[j] > m5 THEN 200 ELSE 12]

(* Integer square root (floor). *)
ISqrt(n) == CHOOSE r \in 0..300 : r * r <= n /\ n < (r + 1) * (r + 1)

----------------------------------------------------------------------------
(* buildTree and the radius of the query. *)

(* buildTree(simDataRa, simDataDec): the points of the tree, or ValueError *)
(* for an angle beyond 2*pi or for no point at all.                        *)
buildTree(simDataRa, simDataDec) ==
    IF \/ \E j \in DOMAIN simDataRa : Abs(simDataRa[j]) > TwoPi
       \/ \E j \in DOMAIN simDataDec : Abs(simDataDec[j]) > TwoPi
    THEN [ok |-> FALSE, data |-> <<>>]
    ELSE LET data == [j \in DOMAIN simDataRa |->
                         treexyz(simDataRa[j], simDataDec[j])]
         IN IF Len(data) > 0
            THEN [ok |-> TRUE, data |-> data]
            ELSE [ok |-> FALSE, data |-> <<>>]

(* treeRadius of lines 88-90, kept squared: query_ball_point compares a    *)
(* distance with it, and both sides are non-negative.                      *)
treeRadius2 ==
    Dist2(treexyz(np_radians(radius_fov), 0), <<Scale * Scale, 0, 0>>)

(* query_ball_point with a strict comparison: stars at exactly the radius  *)
(* are left out.                                                           *)
query_ball_point_strict(data, x, r2) ==
    SetToSortedSeq({j \in DOMAIN data : Dist2(data[j], x) < r2})

(* cKDTree.query_ball_point(x, r): the indices of the points within r of x *)
(* (in ascending order here; scipy promises no order).                     *)
query_ball_point(data, x, r2) ==
    SetToSortedSeq({j \in DOMAIN data : Dist2(data[j], x) <= r2})

----------------------------------------------------------------------------
(* The body of generate_catalog. *)

(* A test that never takes the early return. *)
NoOffsets_never(offs) == FALSE

(* offsets is None *)
NoOffsets(offs) == offs.is_none

(* rfn.merge_arrays([stars_array, stars_new], flatten=True): a new array   *)
(* holding the caller's columns and the zero-filled new ones.              *)
merge_arrays(sa) ==
    [j \in DOMAIN sa |->
        [id |-> sa[j].id, ra |-> sa[j].ra, decl |-> sa[j].decl,
         rmag |-> sa[j].rmag, gmag |-> sa[j].gmag,
         x |-> 0, y |-> 0, radius |-> 0, patch_id |-> 0, sub_patch |-> 0,
         observed_mag |-> 0, mag_uncert |-> 0]]

(* stars[indices] with a list of indices: a copy of the selected rows. *)
TakeRows(st, indices) == [j \in DOMAIN indices |-> st[indices[j]]]

(* The catalog if stars[indices] were a view: the writes to the candidates *)
(* land in the catalog rows they were taken from.                          *)
CatalogAfterWrites_view(st, indices, stars_in) ==
    [s \in DOMAIN st |->
        IF \E j \in DOMAIN indices : indices[j] = s
        THEN stars_in[CHOOSE j \in DOMAIN indices : indices[j] = s]
        ELSE st[s]]

(* What the catalog holds once the candidates taken from it were written   *)
(* to: advanced indexing copies, so the catalog keeps its rows.            *)
CatalogAfterWrites(st, indices, stars_in) == st

(* An assignment that forgets the entries of the other keys. *)
DictSet_reset(dmags, key, val) == <<[key |-> key, val |-> val]>>

(* An assignment that keeps the old entry of the key next to the new one. *)
DictSet_append(dmags, key, val) == Append(dmags, [key |-> key, val |-> val])

(* dmags[key] = val on an insertion-ordered dict of <<key, val>> entries. *)
DictSet(dmags, key, val) ==
    IF \E j \in DOMAIN dmags : dmags[j].key = key
    THEN [j \in DOMAIN dmags |->
            IF dmags[j].key = key THEN [key |-> key, val |-> val] ELSE dmags[j]]
    ELSE Append(dmags, [key |-> key, val |-> val])

(* The offsets loop with an exception swallowed: the failing offset is     *)
(* skipped and the loop goes on.                                           *)
RECURSIVE ApplyOffsets_swallow(_, _, _, _, _, _)
ApplyOffsets_swallow(offs, k, stars_in, visit, vi, acc) ==
    IF k > Len(offs) THEN acc
    ELSE LET r == OffsetCall(offs[k], stars_in, visit, acc.dmags)
             entry == [visit |-> vi, k |-> k, key |-> offs[k].newkey,
                       dmags |-> acc.dmags, raised |-> r.raised, val |-> r.val]
         IN ApplyOffsets_swallow(offs, k + 1, stars_in, visit, vi,
                [dmags |-> IF r.raised THEN acc.dmags
                           ELSE DictSet(acc.dmags, offs[k].newkey, r.val),
                 log |-> Append(acc.log, entry), raised |-> FALSE])

(* The loop of lines 125-126 from offset k on.  acc is [dmags, log,        *)
(* raised]; log gets one entry per invocation, with the dmags it was given. *)
RECURSIVE ApplyOffsets(_, _, _, _, _, _)
ApplyOffsets(offs, k, stars_in, visit, vi, acc) ==
    IF k > Len(offs) THEN acc
    ELSE LET r == OffsetCall(offs[k], stars_in, visit, acc.dmags)
             entry == [visit |-> vi, k |-> k, key |-> offs[k].newkey,
                       dmags |-> acc.dmags, raised |-> r.raised, val |-> r.val]
         IN IF r.raised
            THEN [dmags |-> acc.dmags, log |-> Append(acc.log, entry),
                  raised |-> TRUE]
            ELSE ApplyOffsets(offs, k + 1, stars_in, visit, vi,
                    [dmags |-> DictSet(acc.dmags, offs[k].newkey, r.val),
                     log |-> Append(acc.log, entry), raised |-> FALSE])

(* stars_in["%smag" % lsst_filter] *)
BandMag(star) == IF lsst_filter = "r" THEN star.rmag ELSE star.gmag

(* Lines 129-132: the band magnitude plus dmags[key] for every key. *)
RECURSIVE AddDmags(_, _, _)
AddDmags(obs_mag, dmags, n) ==
    IF n > Len(dmags) THEN obs_mag
    ELSE AddDmags([j \in DOMAIN obs_mag |-> obs_mag[j] + dmags[n].val[j]],
                  dmags, n + 1)

(* TotalMag that leaves out the first key of dmags. *)
TotalMag_skip_first(stars_in, dmags) ==
    AddDmags([j \in DOMAIN stars_in |-> BandMag(stars_in[j])], dmags, 2)

TotalMag(stars_in, dmags) ==
    AddDmags([j \in DOMAIN stars_in |-> BandMag(stars_in[j])], dmags, 1)

(* Lines 135-139: base error and floor in quadrature. *)
MagErr(obs_mag, visit) ==
    LET base == calc_mag_errors(obs_mag, visit.fiveSigmaDepth)
    IN [j \in DOMAIN obs_mag |->
          ISqrt(base[j] * base[j] + uncert_floor * uncert_floor)]

(* Lines 142-143: the two result columns of the candidates. *)
WriteResults(stars_in, obs_mag, mag_err) ==
    [j \in DOMAIN stars_in |->
        [stars_in[j] EXCEPT !.observed_mag = obs_mag[j],
                            !.mag_uncert = mag_err[j]]]

(* Lines 146-148: the output columns of the candidates. *)
SubCols(stars_in) ==
    [j \in DOMAIN stars_in |->
        [id |-> stars_in[j].id, patch_id |-> stars_in[j].patch_id,
         observed_mag |-> stars_in[j].observed_mag,
         mag_uncert |-> stars_in[j].mag_uncert,
         mag |-> BandMag(stars_in[j]),
         ra |-> stars_in[j].ra, decl |-> stars_in[j].decl]]

(* np.concatenate that puts later arrays first. *)
RECURSIVE np_concatenate_reversed(_)
np_concatenate_reversed(arrays) ==
    IF arrays = <<>> THEN <<>>
    ELSE np_concatenate_reversed(Tail(arrays)) \o Head(arrays)

(* np.concatenate(arrays) for a non-empty list of arrays. *)
RECURSIVE np_concatenate(_)
np_concatenate(arrays) ==
    IF arrays = <<>> THEN <<>>
    ELSE Head(arrays) \o np_concatenate(Tail(arrays))

(* One pass of the loop body up to the offsets (lines 113-126). *)
VisitWork(visit, vi) ==
    LET v == treexyz(np_radians(visit.ra), np_radians(visit.dec))
        indices == query_ball_point(starTree, v, treeRadius2)
        projected == stars_project(TakeRows(stars, indices), visit)
        patched == assign_patches(projected, visit, n_patches)
        applied == ApplyOffsets(offsets.list, 1, patched, visit, vi,
                       [dmags |-> <<>>, log |-> <<>>, raised |-> FALSE])
    IN [indices |-> indices, stars_in |-> patched, applied |-> applied]

(* The rest of the loop body (lines 128-143). *)
VisitResults(visit, stars_in, dmags) ==
    LET obs_mag == TotalMag(stars_in, dmags)
    IN WriteResults(stars_in, obs_mag, MagErr(obs_mag, visit))

----------------------------------------------------------------------------
Init ==
    /\ stars_array \in {WithIds(c) : c \in SeqsUpTo(StarChoices, MaxStars)}
    /\ visits \in SeqsUpTo(VisitChoices, MaxVisits)
    /\ offsets \in {[is_none |-> TRUE, list |-> <<>>]}
           \cup {[is_none |-> FALSE, list |-> l] :
                    l \in SeqsUpTo(OffsetChoices, MaxOffsets)}
    /\ radius_fov \in FovChoices
    /\ pc = "call"
    /\ error = ""
    /\ warned = FALSE
    /\ stars = <<>>
    /\ starTree = <<>>
    /\ tree_builds = 0
    /\ seeds = <<>>
    /\ i = 1
    /\ list_of_observed_arrays = <<>>
    /\ selected = <<>>
    /\ calls = <<>>
    /\ dmags_log = <<>>
    /\ result = [is_none |-> TRUE, records |-> <<>>]

(* Lines 79-82: no offsets, warn and return None. *)
ReturnNoOffsets ==
    /\ pc = "call"
    /\ NoOffsets(offsets)
    /\ warned' = TRUE
    /\ pc' = "returned"
    /\ result' = [is_none |-> TRUE, records |-> <<>>]
    /\ UNCHANGED <<visits, stars_array, offsets, radius_fov, error, stars, starTree,
                   tree_builds, seeds, i, list_of_observed_arrays, selected,
                   calls, dmags_log>>

(* Lines 85-103 when buildTree raises ValueError. *)
BuildTreeRaises ==
    /\ pc = "call"
    /\ ~NoOffsets(offsets)
    /\ LET merged == merge_arrays(stars_array)
           tree == buildTree([j \in DOMAIN merged |-> np_radians(merged[j].ra)],
                             [j \in DOMAIN merged |-> np_radians(merged[j].decl)])
       IN /\ ~tree.ok
          /\ stars' = merged
    /\ pc' = "raised"
    /\ error' = "ValueError"
    /\ UNCHANGED <<visits, stars_array, offsets, radius_fov, warned, starTree, tree_builds,
                   seeds, i, list_of_observed_arrays, selected, calls,
                   dmags_log, result>>

(* Lines 85-110: merge the catalog, build the tree, seed, enter the loop. *)
Setup ==
    /\ pc = "call"
    /\ ~NoOffsets(offsets)
    /\ LET merged == merge_arrays(stars_array)
           tree == buildTree([j \in DOMAIN merged |-> np_radians(merged[j].ra)],
                             [j \in DOMAIN merged |-> np_radians(merged[j].decl)])
       IN /\ tree.ok
          /\ stars' = merged
          /\ starTree' = tree.data
    /\ tree_builds' = tree_builds + 1
    /\ seeds' = Append(seeds, seed)
    /\ list_of_observed_arrays' = <<>>
    /\ i' = 1
    /\ pc' = "loop"
    /\ UNCHANGED <<visits, stars_array, offsets, radius_fov, error, warned, selected,
                   calls, dmags_log, result>>

(* Lines 112-154, one visit whose offsets all return. *)
ProcessVisit ==
    /\ pc = "loop"
    /\ i <= Len(visits)
    /\ LET w == VisitWork(visits[i], i)
           done == VisitResults(visits[i], w.stars_in, w.applied.dmags)
       IN /\ ~w.applied.raised
          /\ selected' = Append(selected, w.indices)
          /\ calls' = calls \o w.applied.log
          /\ dmags_log' = Append(dmags_log, w.applied.dmags)
          /\ stars' = CatalogAfterWrites(stars, w.indices, done)
          /\ list_of_observed_arrays' =
                 Append(list_of_observed_arrays, SubCols(done))
    /\ i' = i + 1
    /\ UNCHANGED <<visits, stars_array, offsets, radius_fov, pc, error, warned, starTree,
                   tree_builds, seeds, result>>

(* Lines 112-126, one visit in which an offset raises: the exception       *)
(* leaves generate_catalog.                                                *)
OffsetRaises ==
    /\ pc = "loop"
    /\ i <= Len(visits)
    /\ LET w == VisitWork(visits[i], i)
       IN /\ w.applied.raised
          /\ selected' = Append(selected, w.indices)
          /\ calls' = calls \o w.applied.log
          /\ stars' = CatalogAfterWrites(stars, w.indices, w.stars_in)
    /\ pc' = "raised"
    /\ error' = "OffsetError"
    /\ UNCHANGED <<visits, stars_array, offsets, radius_fov, warned, starTree, tree_builds,
                   seeds, i, list_of_observed_arrays, dmags_log, result>>

(* Lines 156-157 with at least one block: concatenate and return. *)
ReturnResult ==
    /\ pc = "loop"
    /\ i > Len(visits)
    /\ list_of_observed_arrays # <<>>
    /\ result' = [is_none |-> FALSE,
                  records |-> np_concatenate(list_of_observed_arrays)]
    /\ pc' = "returned"
    /\ UNCHANGED <<visits, stars_array, offsets, radius_fov, error, warned, stars, starTree,
                   tree_builds, seeds, i, list_of_observed_arrays, selected,
                   calls, dmags_log>>

(* Line 156 with no block: np.concatenate raises ValueError. *)
ConcatenateRaises ==
    /\ pc = "loop"
    /\ i > Len(visits)
    /\ list_of_observed_arrays = <<>>
    /\ pc' = "raised"
    /\ error' = "ValueError"
    /\ UNCHANGED <<visits, stars_array, offsets, radius_fov, warned, stars, starTree,
                   tree_builds, seeds, i, list_of_observed_arrays, selected,
                   calls, dmags_log, result>>

Next ==
    \/ ReturnNoOffsets
    \/ BuildTreeRaises
    \/ Setup
    \/ ProcessVisit
    \/ OffsetRaises
    \/ ReturnResult
    \/ ConcatenateRaises

Spec == Init /\ [][Next]_vars

----------------------------------------------------------------------------
(* Vocabulary of the properties. *)

Returned == pc = "returned" /\ ~result.is_none

DistinctKeys(offs) ==
    \A a, b \in DOMAIN offs : a # b => offs[a].newkey # offs[b].newkey

(* Number of records the visits before v contributed. *)
RECURSIVE BlockStart(_)
BlockStart(v) == IF v = 1 THEN 0 ELSE BlockStart(v - 1) + Len(selected[v - 1])

(* The invocation of offset k in visit v (there is one when the visit       *)
(* completed).                                                             *)
CallOf(v, k) == CHOOSE c \in Range(calls) : c.visit = v /\ c.k = k

(* Sum over offsets 1..k of the delta each returned for candidate j of v.  *)
RECURSIVE DeltaSum(_, _, _)
DeltaSum(v, j, k) ==
    IF k = 0 THEN 0 ELSE DeltaSum(v, j, k - 1) + CallOf(v, k).val[j]

(* The unit vector of a position given in degrees. *)
UnitVector(ra_deg, dec_deg) == treexyz(np_radians(ra_deg), np_radians(dec_deg))

(* The chord between the direction (1,0,0) and the one radius_fov away,    *)
(* squared.                                                                *)
ChordRadius2 ==
    Dist2(<<Scale * Scale, 0, 0>>, treexyz(np_radians(radius_fov), 0))

(* Squared chord distance of catalog star s from the pointing of visit v.  *)
StarVisitDist2(s, v) ==
    Dist2(UnitVector(stars_array[s].ra, stars_array[s].decl),
          UnitVector(visits[v].ra, visits[v].dec))

----------------------------------------------------------------------------
(* C1: with offsets of pairwise distinct keys, every returned record's     *)
(* observed_mag is the star's true r magnitude plus the sum, over every     *)
(* configured offset, of the delta that offset returned for that star in   *)
(* that visit: each offset was invoked once in the visit and each delta is *)
(* counted once.                                                           *)
C1_ObservedMagIsTruePlusDeltas ==
    (Returned /\ DistinctKeys(offsets.list)) =>
        \A v \in 1..Len(visits) :
            /\ Cardinality({n \in DOMAIN calls : calls[n].visit = v})
                   = Len(offsets.list)
            /\ \A j \in 1..Len(selected[v]) :
                  LET rec == result.records[BlockStart(v) + j]
                      star == stars_array[selected[v][j]]
                  IN /\ rec.id = star.id
                     /\ rec.mag = star.rmag
                     /\ rec.observed_mag =
                            star.rmag + DeltaSum(v, j, Len(offsets.list))

C1_Witness ==
    /\ Returned
    /\ DistinctKeys(offsets.list)
    /\ Len(offsets.list) = 2
    /\ Len(visits) = 2
    /\ Len(selected[1]) = 2
    /\ Len(selected[2]) >= 1
    /\ selected[1] # selected[2]

(* C2: the result is the per-visit blocks concatenated in visit order; the *)
(* block of a visit holds one record for each candidate of that visit, a   *)
(* star seen by several visits has a record in each, nothing is sorted; a  *)
(* visit without candidates adds no record and the run fails only for a    *)
(* catalog buildTree rejects, for no visit at all, or for an offset that   *)
(* raises.                                                                 *)
C2_ConcatenationOfVisitBlocks ==
    /\ Returned =>
          /\ Len(selected) = Len(visits)
          /\ Len(result.records) = BlockStart(Len(visits) + 1)
          /\ \A v \in 1..Len(visits) : \A j \in 1..Len(selected[v]) :
                LET rec == result.records[BlockStart(v) + j]
                    star == stars_array[selected[v][j]]
                IN /\ rec.id = star.id
                   /\ rec.ra = star.ra
                   /\ rec.decl = star.decl
          /\ \A v \in 1..Len(visits) :
                Cardinality(Range(selected[v])) = Len(selected[v])
    /\ pc = "raised" =>
          \/ tree_builds = 0
          \/ visits = <<>>
          \/ calls # <<>> /\ calls[Len(calls)].raised
    /\ (pc = "loop" /\ i > Len(visits) /\ visits # <<>>) =>
          list_of_observed_arrays # <<>>

C2_Witness ==
    /\ Returned
    /\ Len(visits) = 2
    /\ selected[1] = <<>>
    /\ Len(selected[2]) = 2
    /\ Len(result.records) = 2

(* C3: for every processed visit the candidates are exactly the catalog    *)
(* stars whose unit vector is at chord distance at most the chord radius   *)
(* from the visit's pointing, the chord radius being that of radius_fov    *)
(* for every visit.                                                        *)
C3_CandidatesAreTheStarsWithinChordRadius ==
    \A v \in 1..Len(selected) :
        Range(selected[v]) =
            {s \in 1..Len(stars_array) : StarVisitDist2(s, v) <= ChordRadius2}

C3_Witness ==
    /\ Len(selected) = 2
    /\ \E s \in Range(selected[1]) : StarVisitDist2(s, 1) = ChordRadius2
    /\ \E s \in Range(selected[1]) : StarVisitDist2(s, 1) < ChordRadius2
    /\ \E s \in 1..Len(stars_array) : StarVisitDist2(s, 2) > ChordRadius2
    /\ selected[2] # <<>>

----------------------------------------------------------------------------
(* The catalog is one buildTree accepts: not empty, no angle beyond 2*pi.  *)
CatalogAccepted ==
    /\ stars_array # <<>>
    /\ \A s \in DOMAIN stars_array :
          /\ Abs(np_radians(stars_array[s].ra)) <= TwoPi
          /\ Abs(np_radians(stars_array[s].decl)) <= TwoPi

(* No record was assembled or returned. *)
NoRecord ==
    /\ \A v \in DOMAIN list_of_observed_arrays : list_of_observed_arrays[v] = <<>>
    /\ result.records = <<>>

(* C4: with offsets=None the call warns and returns None without raising,  *)
(* and nothing else has happened: no merged catalog, no index, no seeding, *)
(* no visit processed, no offset invoked, whatever the catalog and visits. *)
C4_NoneOffsetsWarnAndReturnFirst ==
    offsets.is_none =>
        /\ pc \in {"call", "returned"}
        /\ error = ""
        /\ pc = "returned" => (warned /\ result.is_none)
        /\ stars = <<>>
        /\ starTree = <<>>
        /\ tree_builds = 0
        /\ seeds = <<>>
        /\ selected = <<>>
        /\ calls = <<>>
        /\ NoRecord

C4_Witness ==
    /\ offsets.is_none
    /\ pc = "returned"
    /\ warned
    /\ ~CatalogAccepted
    /\ stars_array # <<>>
    /\ visits # <<>>

(* C5: with zero offsets configured (None or an empty sequence) the call   *)
(* returns nothing and produces no observation record.                     *)
C5_ZeroOffsetsRefused ==
    (offsets.is_none \/ offsets.list = <<>>) =>
        /\ pc = "returned" => result.is_none
        /\ NoRecord

(* C6: with an empty catalog or an empty visit sequence (and offsets not   *)
(* None) the call fails with ValueError before the index is built, before  *)
(* the generator is seeded and before any offset is invoked.               *)
C6_EmptyInputFailsBeforeProcessing ==
    (~offsets.is_none /\ (stars_array = <<>> \/ visits = <<>>)) =>
        /\ pc \in {"call", "raised"}
        /\ pc = "raised" => error = "ValueError"
        /\ tree_builds = 0
        /\ seeds = <<>>
        /\ calls = <<>>

(* What holds of empty input instead of C6: an empty catalog fails with    *)
(* ValueError before the index is built, the generator seeded or an offset *)
(* invoked; an empty visit sequence also ends in ValueError with no offset *)
(* invoked and no record, but for a catalog buildTree accepts only at the  *)
(* final concatenation, the index built and the generator seeded.          *)
EmptyInputFails ==
    /\ (~offsets.is_none /\ stars_array = <<>>) =>
          /\ pc \in {"call", "raised"}
          /\ pc = "raised" => error = "ValueError"
          /\ tree_builds = 0
          /\ seeds = <<>>
          /\ calls = <<>>
    /\ (~offsets.is_none /\ visits = <<>>) =>
          /\ pc \in {"call", "loop", "raised"}
          /\ pc = "raised" => error = "ValueError"
          /\ calls = <<>>
          /\ selected = <<>>
          /\ NoRecord
          /\ (pc = "raised" /\ CatalogAccepted) =>
                (tree_builds = 1 /\ seeds = <<seed>>)
          /\ (pc = "raised" /\ ~CatalogAccepted) =>
                (tree_builds = 0 /\ seeds = <<>>)

EmptyVisitsFailLate ==
    /\ ~offsets.is_none
    /\ offsets.list # <<>>
    /\ visits = <<>>
    /\ CatalogAccepted
    /\ pc = "raised"
    /\ error = "ValueError"
    /\ tree_builds = 1

(* C7: an offset that raises ends the call with that exception: it is the  *)
(* last invocation made (no retry, no later offset, no later visit), and   *)
(* nothing is returned, whatever earlier visits had assembled.             *)
C7_OffsetErrorAbortsTheRun ==
    /\ \A n \in DOMAIN calls :
          calls[n].raised =>
              /\ n = Len(calls)
              /\ pc = "raised"
              /\ error = "OffsetError"
              /\ result.is_none
              /\ result.records = <<>>
              /\ Len(selected) = calls[n].visit
              /\ Len(list_of_observed_arrays) = calls[n].visit - 1
              /\ \A m \in DOMAIN calls :
                    (calls[m].visit = calls[n].visit /\ calls[m].k = calls[n].k)
                        => m = n
    /\ error = "OffsetError" =>
          (pc = "raised" /\ calls # <<>> /\ calls[Len(calls)].raised)

C7_Witness ==
    /\ pc = "raised"
    /\ error = "OffsetError"
    /\ Len(offsets.list) = 2
    /\ calls[Len(calls)].visit = 2
    /\ calls[Len(calls)].k = 1
    /\ list_of_observed_arrays[1] # <<>>

----------------------------------------------------------------------------
(* The keys of the offsets before offset k. *)
KeysBefore(k) == {offsets.list[m].newkey : m \in 1..(k - 1)}

(* The last offset before k that has the given key. *)
LastBefore(k, key) ==
    CHOOSE m \in 1..(k - 1) :
        /\ offsets.list[m].newkey = key
        /\ \A n \in (m + 1)..(k - 1) : offsets.list[n].newkey # key

(* The entries dmags holds in visit v once offsets 1..k-1 were recorded:   *)
(* under each of their keys, the delta of the last of them with that key.  *)
EntriesBefore(v, k) ==
    {[key |-> key, val |-> CallOf(v, LastBefore(k, key)).val] :
        key \in KeysBefore(k)}

HoldsExactly(dmags, entries) ==
    Range(dmags) = entries /\ Len(dmags) = Cardinality(entries)

RowUntouched(row, star) ==
    /\ row.id = star.id /\ row.ra = star.ra /\ row.decl = star.decl
    /\ row.rmag = star.rmag /\ row.gmag = star.gmag
    /\ row.x = 0 /\ row.y = 0 /\ row.radius = 0
    /\ row.patch_id = 0 /\ row.sub_patch = 0
    /\ row.observed_mag = 0 /\ row.mag_uncert = 0

(* C9: no step changes the caller's stars_array; the merged catalog and    *)
(* the index are made in the step that enters the loop, the index exactly  *)
(* once and from the whole catalog, and no later step (a visit, the        *)
(* return) changes them: the catalog rows keep zero in every added column  *)
(* while visits are processed.                                             *)
C9_CatalogAndIndexFrame ==
    [][ /\ stars_array' = stars_array
        /\ (pc = "call" /\ pc' = "loop") =>
              /\ tree_builds' = 1
              /\ selected' = <<>>
              /\ Len(stars') = Len(stars_array)
              /\ Len(starTree') = Len(stars_array)
              /\ \A s \in DOMAIN stars_array :
                    /\ RowUntouched(stars'[s], stars_array[s])
                    /\ starTree'[s] =
                          UnitVector(stars_array[s].ra, stars_array[s].decl)
        /\ pc # "call" =>
              /\ stars' = stars
              /\ starTree' = starTree
              /\ tree_builds' = tree_builds
        /\ selected' # selected => (pc = "loop" /\ tree_builds = 1)
      ]_vars

C9_Witness ==
    /\ Len(selected) = 2
    /\ Len(list_of_observed_arrays) = 2
    /\ \E s \in Range(selected[1]) : s \in Range(selected[2])
    /\ \A v \in 1..2 : \A j \in DOMAIN list_of_observed_arrays[v] :
          /\ list_of_observed_arrays[v][j].patch_id # 0
          /\ list_of_observed_arrays[v][j].observed_mag # 0
          /\ list_of_observed_arrays[v][j].mag_uncert # 0
    /\ \A s \in DOMAIN stars : RowUntouched(stars[s], stars_array[s])
    /\ tree_builds = 1

(* The offsets that are the last of the list with their key. *)
LastOfKey == {k \in 1..Len(offsets.list) :
                 \A m \in (k + 1)..Len(offsets.list) :
                     offsets.list[m].newkey # offsets.list[k].newkey}

RECURSIVE SumOver(_, _, _)
SumOver(S, v, j) ==
    IF S = {} THEN 0
    ELSE LET k == CHOOSE x \in S : TRUE
         IN CallOf(v, k).val[j] + SumOver(S \ {k}, v, j)

(* C10: when two offsets share a key the run does not fail for it; the     *)
(* later offset is given the earlier one's delta under that key, its own   *)
(* delta then replaces it (one entry per key, holding the last delta), and *)
(* observed_mag adds, for each key, only the last delta recorded under it. *)
C10_DuplicateKeyOverwrites ==
    ~DistinctKeys(offsets.list) =>
        /\ pc = "raised" =>
              \/ tree_builds = 0
              \/ visits = <<>>
              \/ calls # <<>> /\ calls[Len(calls)].raised
        /\ \A n \in DOMAIN calls :
              \A m \in 1..(n - 1) :
                  ( /\ calls[m].visit = calls[n].visit
                    /\ calls[m].key = calls[n].key
                    /\ \A q \in (m + 1)..(n - 1) : calls[q].key # calls[n].key )
                  => [key |-> calls[m].key, val |-> calls[m].val]
                         \in Range(calls[n].dmags)
        /\ \A v \in DOMAIN dmags_log :
              /\ Len(dmags_log[v]) = Cardinality(LastOfKey)
              /\ \A k \in LastOfKey :
                    [key |-> offsets.list[k].newkey, val |-> CallOf(v, k).val]
                        \in Range(dmags_log[v])
        /\ Returned =>
              \A v \in 1..Len(visits) : \A j \in 1..Len(selected[v]) :
                  result.records[BlockStart(v) + j].observed_mag =
                      stars_array[selected[v][j]].rmag + SumOver(LastOfKey, v, j)

C10_Witness ==
    /\ Returned
    /\ Len(offsets.list) = 2
    /\ offsets.list[1].newkey = offsets.list[2].newkey
    /\ result.records # <<>>
    /\ calls[1].val # calls[2].val
    /\ calls[2].dmags # <<>>

====
